---- MODULE Spec2Model ----
(***************************************************************************)
(* ROLANN: the closed-form classification layer of src/models/ROLANN.py.   *)
(*                                                                         *)
(* Arithmetic is exact.  Vectors are sequences of integers, matrices are   *)
(* sequences of rows.  Solved weights are fractions in lowest terms.       *)
(*                                                                         *)
(* A reduced singular value decomposition  U, S, _ = svd(A)  has           *)
(* irrational entries.  The program reads the pair (U, S) in two ways      *)
(* only: as the product U*diag(S) inside a concatenation that is factored  *)
(* again (_aggregate_parcial), and as U*diag(g(S*S))*U^T*M                 *)
(* (_calculate_weights).  Both are functions of the shapes of U and S and  *)
(* of the matrix U*diag(S)^2*U^T = A*A^T, so a factor is written           *)
(*     U = [rows, cols, gram]      S = [len]                               *)
(* where gram is U*diag(S)^2*U^T.  A matrix that is only ever factored     *)
(* (U*diag(S), a concatenation) is written [rows, cols, gram] too, with    *)
(* gram its product with its own transpose.                                *)
(***************************************************************************)
EXTENDS Integers, Sequences, FiniteSets, TLC

VARIABLES
    num_classes,   \* self.num_classes
    lamb,          \* self.lamb
    activation,    \* the activation name given to __init__
    sparse,        \* self.sparse
    w,             \* self.w: None, or the list of weight vectors
    m, u, s,       \* self.m, self.u, self.s: None, or the stacked local statistics
    mg, ug, sg,    \* self.mg, self.ug, self.sg: the global statistics, per class
    last,          \* the last call made on the instance and how it ended
    seen,          \* history: the aggregate_update calls that wrote global
                   \* statistics since construction or the last reset(), each
                   \* [batch, wrote]: its batch and the classes it wrote; kept
                   \* in the order of Before, not in the order of the calls
    calls          \* the aggregate_update calls that threads are making on the
                   \* instance stage by stage: the stage each thread is at, its
                   \* batch, the order in which the calls started, and whether
                   \* one started while the other was under way

vars == <<num_classes, lamb, activation, sparse, w, m, u, s, mg, ug, sg, last, seen, calls>>

\* self.w = None, and self.w = a list
NoWeights == [none |-> TRUE, list |-> <<>>]
WeightList(l) == [none |-> FALSE, list |-> l]

\* self.m = self.u = self.s = None (a stacked tensor is never empty)
NoStatistics == <<>>

(***************************************************************************)
(* Bounds and input sets                                                   *)
(***************************************************************************)

\* aggregate_update calls that write global statistics between two resets
MaxUpdates == 3

\* activation names: the three __init__ recognises and one it does not
Recognized == {"logs", "rel", "lin"}
ActivationNames == Recognized \cup {"relu"}

NumClassesChoices == {0, 1, 2}
LambChoices == {0, 1}

(***************************************************************************)
(* Integer and fraction helpers                                            *)
(***************************************************************************)

Min(a, b) == IF a <= b THEN a ELSE b
Abs(a) == IF a < 0 THEN -a ELSE a

\* the sequence f, with its entries evaluated once
Eval(f) == f \o <<>>

RECURSIVE Gcd(_, _)
Gcd(a, b) == IF b = 0 THEN Abs(a) ELSE Gcd(b, a % Abs(b))

RECURSIVE SumTo(_, _)
\* f[1] + ... + f[n]
SumTo(f, n) == IF n = 0 THEN 0 ELSE f[n] + SumTo(f, n - 1)

RECURSIVE GcdSeq(_, _)
GcdSeq(v, n) == IF n = 0 THEN 0 ELSE Gcd(v[n], GcdSeq(v, n - 1))

\* the vector num/den in lowest terms with a positive denominator (den # 0)
Frac(num, den) ==
    LET g == Gcd(GcdSeq(num, Len(num)), den)
        sgn == IF den < 0 THEN -1 ELSE 1
    IN [num |-> Eval([i \in 1..Len(num) |-> sgn * (num[i] \div g)]),
        den |-> sgn * (den \div g)]

\* a weight vector with a non-finite entry (inf or nan)
NonFinite == [num |-> <<>>, den |-> 0]

(***************************************************************************)
(* Tensors                                                                 *)
(***************************************************************************)

Rows(A) == Len(A)
Cols(A) == Len(A[1])

\* X.T
Transpose(A) == Eval([j \in 1..Cols(A) |-> Eval([i \in 1..Rows(A) |-> A[i][j]])])

\* d[:, i]
Column(d, i) == Eval([j \in 1..Len(d) |-> d[j][i]])

\* torch.matmul(A, v) for a matrix and a vector
MatVec(A, v) ==
    Eval([i \in 1..Rows(A) |-> SumTo([j \in 1..Len(v) |-> A[i][j] * v[j]], Len(v))])

\* A * A^T
GramOf(A) ==
    Eval([i \in 1..Rows(A) |-> Eval([k \in 1..Rows(A) |->
        SumTo([j \in 1..Cols(A) |-> A[i][j] * A[k][j]], Cols(A))])])

MatAdd(A, B) == Eval([i \in 1..Rows(A) |-> Eval([j \in 1..Cols(A) |-> A[i][j] + B[i][j]])])
VecAdd(a, b) == Eval([i \in 1..Len(a) |-> a[i] + b[i]])

\* a matrix as the factorization sees it
AsFactored(A) == [rows |-> Rows(A), cols |-> Cols(A), gram |-> GramOf(A)]

\* a factorization that keeps one column for every column of A
SvdKeepsColumns(A) ==
    [U |-> [rows |-> A.rows, cols |-> A.cols, gram |-> A.gram],
     S |-> [len |-> A.cols]]

\* U, S, _ = torch.linalg.svd(A, full_matrices=False): min(rows, cols) columns
\* in U and as many singular values, with U*diag(S)^2*U^T = A*A^T
Svd(A) ==
    [U |-> [rows |-> A.rows, cols |-> Min(A.rows, A.cols), gram |-> A.gram],
     S |-> [len |-> Min(A.rows, A.cols)]]

\* torch.matmul(U, torch.diag(S)); the shapes must agree
TimesDiag(U, S) == [rows |-> U.rows, cols |-> S.len, gram |-> U.gram]

\* torch.cat((A, B), dim=1)
CatCols(A, B) == [rows |-> A.rows, cols |-> A.cols + B.cols, gram |-> MatAdd(A.gram, B.gram)]

(***************************************************************************)
(* Activation functions (__init__, lines 29-40)                            *)
(*                                                                         *)
(* Targets are the activation's outputs, written by where they come from:  *)
(* Sigmoid(k) is the number sigmoid(k), Exp(k) the number e^k, an integer  *)
(* is itself.  The inverses are exact on them: logit(sigmoid(k)) = k and   *)
(* log(e^k) = k.                                                           *)
(***************************************************************************)

Sigmoid(x) == [fn |-> "sigmoid", at |-> x]
Exp(x) == [fn |-> "exp", at |-> x]

\* self.finv
Finv(act, x) ==
    CASE act = "logs" -> x.at      \* torch.log(x / (1 - x)), x = Sigmoid(k)
      [] act = "rel" -> x.at       \* torch.log(x), x = Exp(k)
      [] act = "lin" -> x

\* self.fderiv
Fderiv(act, x) ==
    CASE act = "logs" -> x * (1 - x)
      [] act = "rel" -> IF x > 0 THEN 1 ELSE 0
      [] act = "lin" -> 1

\* self.f, applied to the fraction q = [num, den] with den > 0
F(act, q) ==
    CASE act = "logs" -> Sigmoid(q)
      [] act = "rel" -> IF q.num > 0 THEN q ELSE [num |-> 0, den |-> 1]
      [] act = "lin" -> q

(***************************************************************************)
(* Local statistics of one class (_update_weights)                         *)
(***************************************************************************)

\* xp = torch.cat((ones, X.T), dim=0)
BiasAugment(X) == <<Eval([j \in 1..Len(X) |-> 1])>> \o Transpose(X)

\* M, U, S of the batch X (n rows) and the target column d (n entries); the
\* sparse and the dense branch compute the same three tensors
LocalStatistics(act, X, d) ==
    LET xp == BiasAugment(X)
        n == Cols(xp)
        f_d == Eval([j \in 1..n |-> Finv(act, d[j])])
        derf == Eval([j \in 1..n |-> Fderiv(act, f_d[j])])
        H == Eval([i \in 1..Rows(xp) |-> Eval([j \in 1..n |-> xp[i][j] * derf[j]])])
        usv == Svd(AsFactored(H))
        M == MatVec(xp, Eval([j \in 1..n |-> derf[j] * derf[j] * f_d[j]]))
    IN [M |-> M, U |-> usv.U, S |-> usv.S]

(***************************************************************************)
(* update_weights: the local statistics of every class                     *)
(***************************************************************************)

\* fault = TRUE: a factorization of this stage fails to converge
UpdateWeights(nc, act, X, d, fault) ==
    LET fail(e) == [err |-> e, m |-> <<>>, u |-> <<>>, s |-> <<>>]
        results == Eval([i \in 1..nc |-> LocalStatistics(act, X, Column(d, i))])
    IN  IF nc = 0 THEN fail("ValueError")                 \* ml, ul, sl = zip(*[])
        ELSE IF act \notin Recognized THEN fail("AttributeError")   \* self.finv
        ELSE IF Len(d) # Len(X) THEN fail("RuntimeError") \* matmul(xp, diag(derf))
        ELSE IF fault THEN fail("LinAlgError")            \* torch.linalg.svd
        ELSE IF Cols(d) < nc THEN fail("IndexError")      \* d[:, i]
        ELSE [err |-> "none",
              m |-> Eval([i \in 1..nc |-> results[i].M]),
              u |-> Eval([i \in 1..nc |-> results[i].U]),
              s |-> Eval([i \in 1..nc |-> results[i].S])]

(***************************************************************************)
(* _aggregate_parcial: merge the local statistics into the global ones     *)
(***************************************************************************)

\* a merge that factors the concatenation and forgets the new moment vector
MergeClassKeepsM(Mg, Ug, Sg, m_k, u_k, s_k) ==
    LET usv == Svd(CatCols(TimesDiag(u_k, s_k), TimesDiag(Ug, Sg)))
    IN [M |-> Mg, U |-> usv.U, S |-> usv.S]

\* lines 147-158: the merged statistics of one class
MergeClass(Mg, Ug, Sg, m_k, u_k, s_k) ==
    LET US == TimesDiag(Ug, Sg)
        us_k == TimesDiag(u_k, s_k)
        concatenated == CatCols(us_k, US)
        usv == Svd(concatenated)
    IN [M |-> VecAdd(Mg, m_k), U |-> usv.U, S |-> usv.S]

RECURSIVE AggregateLoop(_, _, _, _, _, _)
\* the loop from class c on; g = [mg, ug, sg], loc = [m, u, s];
\* fault = the class whose factorization fails to converge, or 0
AggregateLoop(c, init, nc, g, loc, fault) ==
    IF c > nc THEN [err |-> "none", cls |-> 0, g |-> g]
    ELSE IF g.mg = <<>> \/ init
    THEN AggregateLoop(c + 1, TRUE, nc,
                       [mg |-> Append(g.mg, loc.m[c]),
                        ug |-> Append(g.ug, loc.u[c]),
                        sg |-> Append(g.sg, loc.s[c])], loc, fault)
    ELSE IF nc # Len(g.mg) THEN [err |-> "AssertionError", cls |-> c, g |-> g]
    ELSE IF fault = c THEN [err |-> "LinAlgError", cls |-> c, g |-> g]
    ELSE LET r == MergeClass(g.mg[c], g.ug[c], g.sg[c], loc.m[c], loc.u[c], loc.s[c])
         IN AggregateLoop(c + 1, FALSE, nc,
                          [mg |-> [g.mg EXCEPT ![c] = r.M],
                           ug |-> [g.ug EXCEPT ![c] = r.U],
                           sg |-> [g.sg EXCEPT ![c] = r.S]], loc, fault)

\* an aggregation that gives back the statistics it started from when it fails
AggregateParcialAtomic(nc, g, loc, fault) ==
    LET r == AggregateLoop(1, FALSE, nc, g, loc, fault)
    IN IF r.err = "none" THEN r ELSE [r EXCEPT !.g = g]

\* _aggregate_parcial (lines 134-168): init = False, then the loop over the classes
AggregateParcial(nc, g, loc, fault) == AggregateLoop(1, FALSE, nc, g, loc, fault)

(***************************************************************************)
(* _calculate_weights: w = U * diag(1 / (S*S + lamb)) * U^T * M            *)
(*                                                                         *)
(* Every batch of the model has one feature, so U has two rows and one or  *)
(* two columns.  With G = U*diag(S)^2*U^T:                                 *)
(*   two columns: U is orthogonal, the entries of S*S are the eigenvalues  *)
(*     of G, and U*diag(1/(S*S+lamb))*U^T is the inverse of G + lamb*I;    *)
(*   one column: S*S is the trace of G and U*U^T is G / trace(G).          *)
(* M lies in the range of G (it is H*(F*z) for the H that G is the Gram    *)
(* of), so the columns of U whose singular value is 0 are orthogonal to M. *)
(***************************************************************************)

Trace2(G) == G[1][1] + G[2][2]
Det2(G) == G[1][1] * G[2][2] - G[1][2] * G[2][1]
Zero2 == Frac(<<0, 0>>, 1)

\* some entry of S*S + lamb is 0
ZeroOnDiagonal(U, S, lam) ==
    lam = 0 /\ (IF S.len = 2 THEN Det2(U.gram) = 0 ELSE Trace2(U.gram) = 0)

\* U * D * U^T * M, D the diagonal of the entries 1/(S*S + lamb) that are
\* finite and 0 in the place of the others
ScaledProjection(M, U, S, lam) ==
    LET G == U.gram
        tr == Trace2(G)
        A == <<<<G[1][1] + lam, G[1][2]>>, <<G[2][1], G[2][2] + lam>>>>
        adjA == <<<<A[2][2], -A[1][2]>>, <<-A[2][1], A[1][1]>>>>
    IN  IF S.len = 2 /\ Det2(A) # 0 THEN Frac(MatVec(adjA, M), Det2(A))
        ELSE IF tr = 0 THEN Zero2
        ELSE Frac(MatVec(G, M), tr * (tr + lam))

\* lines 203-208: diag_elements = 1 / (S*S + lamb); a division by 0 is inf,
\* and inf times the 0 of U^T*M is nan
DenseWeights(M, U, S, lam) ==
    IF ZeroOnDiagonal(U, S, lam) THEN NonFinite ELSE ScaledProjection(M, U, S, lam)

\* lines 181-201: torch.linalg.pinv(S_sparse^2 + lamb*I) inverts the entries
\* that are not 0 and leaves 0 in the place of the others
SparseWeights(M, U, S, lam) == ScaledProjection(M, U, S, lam)

\* lines 176-208: the weight vector of one class
SolveClass(M, U, S, lam, sp) ==
    IF sp THEN SparseWeights(M, U, S, lam) ELSE DenseWeights(M, U, S, lam)

RECURSIVE CalculateLoop(_, _, _, _, _, _, _)
\* the loop from class c on, acc = self.w so far; fault = the class whose
\* pseudo-inverse fails to converge (sparse path), or 0
CalculateLoop(c, acc, nc, g, lam, sp, fault) ==
    IF c > nc THEN [err |-> "none", cls |-> 0, w |-> acc]
    ELSE IF c > Len(g.mg) THEN [err |-> "IndexError", cls |-> c, w |-> acc]
    ELSE IF sp /\ fault = c THEN [err |-> "LinAlgError", cls |-> c, w |-> acc]
    ELSE CalculateLoop(c + 1,
                       Append(acc, SolveClass(g.mg[c], g.ug[c], g.sg[c], lam, sp)),
                       nc, g, lam, sp, fault)

\* a solver that rebuilds the entry of the first class only
CalculateWeightsFirstOnly(nc, g, lam, sp, fault) ==
    IF g.mg = <<>> \/ g.ug = <<>> \/ g.sg = <<>> THEN [err |-> "none", cls |-> 0, w |-> <<>>]
    ELSE CalculateLoop(1, <<>>, Min(nc, 1), g, lam, sp, fault)

\* _calculate_weights (lines 170-210): self.w = [], then a vector per class
CalculateWeights(nc, g, lam, sp, fault) ==
    IF g.mg = <<>> \/ g.ug = <<>> \/ g.sg = <<>>
    THEN [err |-> "none", cls |-> 0, w |-> <<>>]
    ELSE CalculateLoop(1, <<>>, nc, g, lam, sp, fault)

(***************************************************************************)
(* Inputs: batches of one feature and up to two target columns             *)
(***************************************************************************)

\* X is the feature batch; k holds, for every sample and class, the
\* pre-activation value of the target
Batches ==
    <<[X |-> <<<<1>>>>,               k |-> <<<<2, 0>>>>],
      [X |-> <<<<0>>, <<2>>>>,        k |-> <<<<2, -1>>, <<-1, 2>>>>],
      [X |-> <<<<1>>, <<1>>, <<2>>>>, k |-> <<<<0, 2>>, <<2, 1>>, <<1, 0>>>>],
      [X |-> <<<<2>>>>,               k |-> <<<<2>>>>],          \* one target column
      [X |-> <<<<0>>, <<1>>>>,        k |-> <<<<1, 1>>>>]>>      \* two samples, one target row

BatchIds == DOMAIN Batches

\* the target whose pre-activation value is k
TargetOf(act, k) ==
    CASE act = "logs" -> Sigmoid(k)
      [] act = "rel" -> Exp(k)
      [] OTHER -> k

\* the target tensor d of batch b for a layer of activation act
Targets(act, b) ==
    Eval([j \in 1..Len(Batches[b].k) |->
        Eval([i \in 1..Len(Batches[b].k[j]) |-> TargetOf(act, Batches[b].k[j][i])])])

ForwardInputs == {<<<<0>>, <<3>>>>}

\* weight tables a caller may hold and load with set_params: an empty one
\* and the one it read from the instance
ParamChoices(self) == {<<>>} \cup (IF self.w.none THEN {} ELSE {self.w.list})

NoFault == [stage |-> "none", cls |-> 0]
Faults ==
    {NoFault, [stage |-> "local", cls |-> 1]}
    \cup [stage : {"merge", "solve"}, cls : 1..2]

(***************************************************************************)
(* aggregate_update (lines 212-215) as a function of the instance          *)
(***************************************************************************)

Instance ==
    [num_classes |-> num_classes, lamb |-> lamb, activation |-> activation,
     sparse |-> sparse, w |-> w, m |-> m, u |-> u, s |-> s,
     mg |-> mg, ug |-> ug, sg |-> sg]

StageFault(fault, stage) == IF fault.stage = stage THEN fault.cls ELSE 0

\* update_weights on every batch, for every layer, computed once
LocalStage ==
    [nc \in NumClassesChoices, act \in ActivationNames, b \in BatchIds |->
        UpdateWeights(nc, act, Batches[b].X, Targets(act, b), FALSE)]

\* an aggregate_update that assigns self.m, self.u, self.s whatever the local
\* stage produced, also when it raised
AggregateUpdateStoresFailure(self, b, fault) ==
    LET st1 == IF fault.stage = "local"
               THEN UpdateWeights(self.num_classes, self.activation, Batches[b].X,
                                  Targets(self.activation, b), TRUE)
               ELSE LocalStage[self.num_classes, self.activation, b]
        self1 == [self EXCEPT !.m = st1.m, !.u = st1.u, !.s = st1.s]
        st2 == AggregateParcial(self.num_classes,
                                [mg |-> self.mg, ug |-> self.ug, sg |-> self.sg],
                                [m |-> st1.m, u |-> st1.u, s |-> st1.s],
                                StageFault(fault, "merge"))
        self2 == [self1 EXCEPT !.mg = st2.g.mg, !.ug = st2.g.ug, !.sg = st2.g.sg]
        st3 == CalculateWeights(self.num_classes, st2.g, self.lamb, self.sparse,
                                StageFault(fault, "solve"))
        self3 == [self2 EXCEPT !.w = WeightList(st3.w)]
    IN  IF st1.err # "none"
        THEN [self |-> self1, err |-> st1.err, stage |-> "local", cls |-> 0, wrote |-> 0]
        ELSE IF st2.err # "none"
        THEN [self |-> self2, err |-> st2.err, stage |-> "merge", cls |-> st2.cls,
              wrote |-> st2.cls - 1]
        ELSE IF st3.err # "none"
        THEN [self |-> self3, err |-> st3.err, stage |-> "solve", cls |-> st3.cls,
              wrote |-> self.num_classes]
        ELSE [self |-> self3, err |-> "none", stage |-> "none", cls |-> 0,
              wrote |-> self.num_classes]

\* the instance after aggregate_update(X, d) on batch b = (X, d) and how the
\* call ended: err, the stage and class it failed in, the classes whose global
\* entry it wrote
AggregateUpdateOn(self, b, fault) ==
    LET st1 == IF fault.stage = "local"
               THEN UpdateWeights(self.num_classes, self.activation, Batches[b].X,
                                  Targets(self.activation, b), TRUE)
               ELSE LocalStage[self.num_classes, self.activation, b]
        self1 == [self EXCEPT !.m = st1.m, !.u = st1.u, !.s = st1.s]
        st2 == AggregateParcial(self.num_classes,
                                [mg |-> self.mg, ug |-> self.ug, sg |-> self.sg],
                                [m |-> st1.m, u |-> st1.u, s |-> st1.s],
                                StageFault(fault, "merge"))
        self2 == [self1 EXCEPT !.mg = st2.g.mg, !.ug = st2.g.ug, !.sg = st2.g.sg]
        st3 == CalculateWeights(self.num_classes, st2.g, self.lamb, self.sparse,
                                StageFault(fault, "solve"))
        self3 == [self2 EXCEPT !.w = WeightList(st3.w)]
    IN  IF st1.err # "none"
        THEN [self |-> self, err |-> st1.err, stage |-> "local", cls |-> 0, wrote |-> 0]
        ELSE IF st2.err # "none"
        THEN [self |-> self2, err |-> st2.err, stage |-> "merge", cls |-> st2.cls,
              wrote |-> st2.cls - 1]
        ELSE IF st3.err # "none"
        THEN [self |-> self3, err |-> st3.err, stage |-> "solve", cls |-> st3.cls,
              wrote |-> self.num_classes]
        ELSE [self |-> self3, err |-> "none", stage |-> "none", cls |-> 0,
              wrote |-> self.num_classes]

\* a fault has a factorization to fail in: the merge factors only when global
\* statistics exist, the solve only on the sparse path
Possible(self, fault) ==
    /\ fault.stage = "merge" => (self.mg # <<>> /\ fault.cls <= self.num_classes)
    /\ fault.stage = "solve" => (self.sparse /\ fault.cls <= self.num_classes)

\* the injected fault is the failure of the call
Fires(fault, r) ==
    fault # NoFault => (r.err = "LinAlgError" /\ r.stage = fault.stage /\ r.cls = fault.cls)

\* a reset that forgets the weights and keeps the global statistics
ResetKeepsStatistics(self) == [self EXCEPT !.w = NoWeights]

\* reset (lines 101-105)
ResetOn(self) == [self EXCEPT !.ug = <<>>, !.sg = <<>>, !.mg = <<>>, !.w = NoWeights]

(***************************************************************************)
(* forward (lines 107-126); dropout_rate is 0.0, the default               *)
(***************************************************************************)

\* w_tmp * xp[:, j] for the weight vector q and the sample x
Net(q, x) ==
    LET v == Frac(<<q.num[1] + SumTo([i \in 1..Len(x) |-> q.num[i + 1] * x[i]], Len(x))>>,
                  q.den)
    IN [num |-> v.num[1], den |-> v.den]

ForwardOn(self, X) ==
    IF self.w.none THEN [err |-> "TypeError", out |-> <<>>]      \* len(None)
    ELSE IF Len(self.w.list) > 0 /\ self.activation \notin Recognized
    THEN [err |-> "AttributeError", out |-> <<>>]                \* self.f
    ELSE [err |-> "none",
          out |-> Eval([j \in 1..Len(X) |-> Eval([i \in 1..Len(self.w.list) |->
                      IF self.w.list[i] = NonFinite THEN NonFinite
                      ELSE F(self.activation, Net(self.w.list[i], X[j]))])])]

(***************************************************************************)
(* The state machine                                                       *)
(***************************************************************************)

\* a call, the fault injected into it, how it ended (err, and the stage and
\* class an aggregate_update failed in) and what it returned
Call(op, fault, err, stage, cls, out) ==
    [op |-> op, fault |-> fault, err |-> err, stage |-> stage, cls |-> cls, out |-> out]

\* __init__ (lines 16-53): the instance it builds and how it ends; an
\* activation name that matches none of the three branches falls through
\* them, and nothing raises
Construct(nc, lam, act, sp) ==
    [err |-> "none",
     self |-> [num_classes |-> nc, lamb |-> lam, activation |-> act, sparse |-> sp,
               w |-> NoWeights,
               m |-> NoStatistics, u |-> NoStatistics, s |-> NoStatistics,
               mg |-> <<>>, ug |-> <<>>, sg |-> <<>>]]

\* the threads that share the instance
Threads == {1, 2}

\* no thread has called aggregate_update
NoCalls == [pc |-> <<"idle", "idle">>, batch |-> <<0, 0>>, order |-> <<>>, overlapped |-> FALSE]

Init ==
    \E nc \in NumClassesChoices, lam \in LambChoices, act \in ActivationNames,
       sp \in BOOLEAN :
        \E r \in {Construct(nc, lam, act, sp)} :
            /\ num_classes = r.self.num_classes
            /\ lamb = r.self.lamb
            /\ activation = r.self.activation
            /\ sparse = r.self.sparse
            /\ w = r.self.w
            /\ m = r.self.m /\ u = r.self.u /\ s = r.self.s
            /\ mg = r.self.mg /\ ug = r.self.ug /\ sg = r.self.sg
            /\ last = Call("__init__", NoFault, r.err, "none", 0, <<>>)
            /\ seen = <<>>
            /\ calls = NoCalls

Config == <<num_classes, lamb, activation, sparse>>

Before(e, f) == e.batch < f.batch \/ (e.batch = f.batch /\ e.wrote <= f.wrote)

\* the history h with the call e added
Record(h, e) ==
    LET k == Cardinality({i \in 1..Len(h) : Before(h[i], e)})
    IN SubSeq(h, 1, k) \o <<e>> \o SubSeq(h, k + 1, Len(h))

AggregateUpdate(b, fault) ==
    /\ Len(seen) < MaxUpdates
    /\ Possible(Instance, fault)
    /\ \E r \in {AggregateUpdateOn(Instance, b, fault)} :
          /\ Fires(fault, r)
          /\ w' = r.self.w
          /\ m' = r.self.m /\ u' = r.self.u /\ s' = r.self.s
          /\ mg' = r.self.mg /\ ug' = r.self.ug /\ sg' = r.self.sg
          /\ last' = Call("aggregate_update", fault, r.err, r.stage, r.cls, <<>>)
          /\ seen' = IF r.wrote > 0
                     THEN Record(seen, [batch |-> b, wrote |-> r.wrote])
                     ELSE seen
    /\ UNCHANGED <<Config, calls>>

Reset ==
    /\ \E r \in {ResetOn(Instance)} :
          /\ ug' = r.ug /\ sg' = r.sg /\ mg' = r.mg
          /\ w' = r.w
          /\ m' = r.m /\ u' = r.u /\ s' = r.s
    /\ last' = Call("reset", NoFault, "none", "none", 0, <<>>)
    /\ seen' = <<>>
    /\ UNCHANGED <<Config, calls>>

Forward(X) ==
    /\ LET r == ForwardOn(Instance, X)
       IN last' = Call("forward", NoFault, r.err, "none", 0, r.out)
    /\ UNCHANGED <<Config, w, m, u, s, mg, ug, sg, seen, calls>>

\* get_params (lines 128-129): self.us is no attribute of the instance
GetParams ==
    /\ last' = Call("get_params", NoFault, "AttributeError", "none", 0, <<>>)
    /\ UNCHANGED <<Config, w, m, u, s, mg, ug, sg, seen, calls>>

\* set_params (lines 131-132)
SetParams(p) ==
    /\ w' = WeightList(p)
    /\ last' = Call("set_params", NoFault, "none", "none", 0, <<>>)
    /\ UNCHANGED <<Config, m, u, s, mg, ug, sg, seen, calls>>

Next ==
    \/ \E b \in BatchIds, fault \in Faults : AggregateUpdate(b, fault)
    \/ Reset
    \/ \E X \in ForwardInputs : Forward(X)
    \/ GetParams
    \/ \E p \in ParamChoices(Instance) : SetParams(p)

Spec == Init /\ [][Next]_vars

(***************************************************************************)
(* Class growth.  The training script calls rolann.add_num_classes(k)      *)
(* (experience_replay_incremental_train.py, line 110); the method belongs  *)
(* to models/ROLANN_incremental.py, which is not among the sources.  It is *)
(* modelled from the specification: the capacity grows by k absent class   *)
(* slots, that is, num_classes grows and the stored lists are left alone.  *)
(***************************************************************************)

GrowthChoices == {1, 2}

AddNumClasses(k) ==
    /\ num_classes + k \in NumClassesChoices
    /\ num_classes' = num_classes + k
    /\ last' = Call("add_num_classes", NoFault, "none", "none", 0, <<>>)
    /\ UNCHANGED <<lamb, activation, sparse, w, m, u, s, mg, ug, sg, seen, calls>>

NextGrow ==
    \/ Next
    \/ \E k \in GrowthChoices : AddNumClasses(k)

SpecGrow == Init /\ [][NextGrow]_vars

(***************************************************************************)
(* Two threads calling aggregate_update on one instance with no lock.      *)
(* aggregate_update (lines 212-215) is three calls on self in a row:       *)
(* update_weights leaves the local statistics in self.m, self.u, self.s,   *)
(* _aggregate_parcial reads them from there, _calculate_weights reads the  *)
(* global lists.  Each thread makes one call; a step is one of the three   *)
(* stages, run whole.                                                      *)
(***************************************************************************)

\* line 213: self.update_weights(X, d); self.m, self.u, self.s are assigned
\* after every class is computed (lines 60-62)
UpdateWeightsOn(self, b) ==
    LET st == LocalStage[self.num_classes, self.activation, b]
    IN IF st.err # "none"
       THEN [self |-> self, err |-> st.err, cls |-> 0]
       ELSE [self |-> [self EXCEPT !.m = st.m, !.u = st.u, !.s = st.s],
             err |-> "none", cls |-> 0]

\* an aggregation stage that merges nothing
AggregateParcialSkipped(self) == [self |-> self, err |-> "none", cls |-> 0]

\* line 214: self._aggregate_parcial(), on the local statistics self holds
AggregateParcialOn(self) ==
    LET st == AggregateParcial(self.num_classes,
                               [mg |-> self.mg, ug |-> self.ug, sg |-> self.sg],
                               [m |-> self.m, u |-> self.u, s |-> self.s], 0)
    IN [self |-> [self EXCEPT !.mg = st.g.mg, !.ug = st.g.ug, !.sg = st.g.sg],
        err |-> st.err, cls |-> st.cls]

\* line 215: self._calculate_weights()
CalculateWeightsOn(self) ==
    LET st == CalculateWeights(self.num_classes,
                               [mg |-> self.mg, ug |-> self.ug, sg |-> self.sg],
                               self.lamb, self.sparse, 0)
    IN [self |-> [self EXCEPT !.w = WeightList(st.w)], err |-> st.err, cls |-> st.cls]

\* the stage a call moves to when its stage ended with err
After(err, next) == IF err = "none" THEN next ELSE "failed"

\* how a stage that raised err at class cls ends the call
Outcome(err, stage, cls) ==
    IF err = "none" THEN last ELSE Call("aggregate_update", NoFault, err, stage, cls, <<>>)

\* the other thread is between its stages
Underway(t) == \E o \in Threads \ {t} : calls.pc[o] \in {"merge", "solve"}

\* thread t calls aggregate_update with batch b and runs update_weights
StepLocal(t, b) ==
    /\ calls.pc[t] = "idle"
    /\ \E r \in {UpdateWeightsOn(Instance, b)} :
          /\ m' = r.self.m /\ u' = r.self.u /\ s' = r.self.s
          /\ last' = Outcome(r.err, "local", r.cls)
          /\ calls' = [calls EXCEPT !.pc[t] = After(r.err, "merge"),
                                    !.batch[t] = b,
                                    !.order = Append(@, t),
                                    !.overlapped = @ \/ Underway(t)]
    /\ UNCHANGED <<Config, w, mg, ug, sg, seen>>

\* thread t runs _aggregate_parcial
StepAggregate(t) ==
    /\ calls.pc[t] = "merge"
    /\ \E r \in {AggregateParcialOn(Instance)} :
          /\ mg' = r.self.mg /\ ug' = r.self.ug /\ sg' = r.self.sg
          /\ last' = Outcome(r.err, "merge", r.cls)
          /\ seen' = IF r.err = "none"
                     THEN Record(seen, [batch |-> calls.batch[t], wrote |-> num_classes])
                     ELSE seen
          /\ calls' = [calls EXCEPT !.pc[t] = After(r.err, "solve")]
    /\ UNCHANGED <<Config, w, m, u, s>>

\* thread t runs _calculate_weights and its call returns
StepSolve(t) ==
    /\ calls.pc[t] = "solve"
    /\ \E r \in {CalculateWeightsOn(Instance)} :
          /\ w' = r.self.w
          /\ last' = Call("aggregate_update", NoFault, r.err,
                           IF r.err = "none" THEN "none" ELSE "solve", r.cls, <<>>)
          /\ calls' = [calls EXCEPT !.pc[t] = After(r.err, "done")]
    /\ UNCHANGED <<Config, m, u, s, mg, ug, sg, seen>>

NextInterleaved ==
    \/ \E t \in Threads, b \in BatchIds : StepLocal(t, b)
    \/ \E t \in Threads : StepAggregate(t)
    \/ \E t \in Threads : StepSolve(t)

SpecInterleaved == Init /\ [][NextInterleaved]_vars

(***************************************************************************)
(* What the history says: the data merged into each class                  *)
(***************************************************************************)

RECURSIVE MergedInto(_, _)
\* the batches of the history h whose call wrote the global entry of class c
MergedInto(h, c) ==
    IF h = <<>> THEN <<>>
    ELSE (IF Head(h).wrote >= c THEN <<Head(h).batch>> ELSE <<>>) \o MergedInto(Tail(h), c)

RECURSIVE UnionX(_)
\* the feature rows of the batches ids, as one batch
UnionX(ids) == IF ids = <<>> THEN <<>> ELSE Batches[Head(ids)].X \o UnionX(Tail(ids))

RECURSIVE UnionD(_, _, _)
\* the targets of class c of the batches ids, as one column
UnionD(act, ids, c) ==
    IF ids = <<>> THEN <<>>
    ELSE Column(Targets(act, Head(ids)), c) \o UnionD(act, Tail(ids), c)

\* the local statistics of class c over all the data merged into it, computed
\* in one pass
OneShot(c) ==
    LocalStatistics(activation, UnionX(MergedInto(seen, c)),
                    UnionD(activation, MergedInto(seen, c), c))

Succeeded == last.op = "aggregate_update" /\ last.err = "none"

\* the batch b has as many target rows as samples and a target column for each
\* of nc classes
ValidFor(nc, b) ==
    /\ Len(Batches[b].k) = Len(Batches[b].X)
    /\ Cols(Batches[b].k) >= nc

\* some classes have global statistics and the later ones have none yet
Grown == mg # <<>> /\ Len(mg) < num_classes

(***************************************************************************)
(* Claims                                                                  *)
(***************************************************************************)

\* C1 (merge equivalence): once two or more batches have been merged into a
\* class, its global M is the M of their union computed in one pass, its
\* U*diag(S)^2*U^T is the weighted Gram matrix of the union, U and S have the
\* shapes of the one-pass factors, and after a successful aggregate_update the
\* class's weight vector is the one solved from the one-pass statistics.
C1_MergeEquivalence ==
    \A c \in 1..Len(mg) :
        Len(MergedInto(seen, c)) >= 2 =>
            /\ mg[c] = OneShot(c).M
            /\ ug[c] = OneShot(c).U
            /\ sg[c] = OneShot(c).S
            /\ Succeeded =>
                 w.list[c] = SolveClass(OneShot(c).M, OneShot(c).U, OneShot(c).S,
                                        lamb, sparse)

\* two different batches merged into both classes of a two-class layer
C1_Witness ==
    /\ Succeeded
    /\ num_classes = 2
    /\ Len(seen) = 2
    /\ seen[1].batch # seen[2].batch
    /\ seen[1].wrote = 2 /\ seen[2].wrote = 2

\* C2 (rank bound): every stored global U has f+1 rows and at most f+1
\* columns, and the stored S has as many entries as U has columns; so have the
\* local U and S.
C2_RankBound ==
    /\ Len(ug) = Len(mg) /\ Len(sg) = Len(mg)
    /\ \A c \in 1..Len(ug) :
          /\ ug[c].rows = Len(mg[c])
          /\ ug[c].cols <= ug[c].rows
          /\ sg[c].len = ug[c].cols
    /\ \A c \in 1..Len(u) :
          /\ u[c].cols <= u[c].rows
          /\ s[c].len = u[c].cols

\* a merge whose concatenation had more than f+1 columns: more samples than
\* f+1 went into a class in two or more batches
C2_Witness ==
    \E c \in 1..Len(ug) :
        /\ Len(MergedInto(seen, c)) >= 2
        /\ Len(UnionX(MergedInto(seen, c))) > ug[c].rows
        /\ ug[c].cols = ug[c].rows

C4_ForwardUninitialized ==
    (last.op = "forward" /\ (w.none \/ w.list = <<>>)) => last.err # "none"

\* forward was called on an empty table and returned
C4_Witness ==
    /\ last.op = "forward"
    /\ ~w.none /\ w.list = <<>>
    /\ last.err = "none"

\* the weights a reset followed by aggregate_update(b) must reproduce: those
\* of a layer constructed with the same configuration and updated once with b
FreshUpdate(b) ==
    AggregateUpdateOn(Construct(num_classes, lamb, activation, sparse).self, b, NoFault)

\* C5 (idempotent reset): reset empties the global statistics and the weight
\* table, and the aggregate_update that follows it leaves the global
\* statistics and the weights equal to those of a freshly constructed layer of
\* the same configuration after one aggregate_update on the same data.
C5_IdempotentReset ==
    [][/\ last'.op = "reset" =>
            (mg' = <<>> /\ ug' = <<>> /\ sg' = <<>> /\ w' = NoWeights)
       /\ \A b \in BatchIds :
            (last.op = "reset" /\ AggregateUpdate(b, NoFault)) =>
               /\ last'.err = FreshUpdate(b).err
               /\ mg' = FreshUpdate(b).self.mg
               /\ ug' = FreshUpdate(b).self.ug
               /\ sg' = FreshUpdate(b).self.sg
               /\ w' = FreshUpdate(b).self.w]_vars

\* a reset of a layer that had learned from a batch
C5_Witness ==
    /\ last.op = "reset"
    /\ m # NoStatistics
    /\ mg = <<>> /\ w = NoWeights

\* C6 (unrecognized activation): no layer with an activation name outside the
\* recognized ones exists; the construction has failed.
C6_ActivationChecked ==
    activation \in Recognized \/ (last.op = "__init__" /\ last.err # "none")

\* a layer with an unrecognized activation was constructed and failed only
\* when it was asked to learn
C6_Witness ==
    /\ activation \notin Recognized
    /\ last.op = "aggregate_update"
    /\ last.err = "AttributeError"

\* C7 (sparse/dense equivalence): for the global statistics of every class and
\* every regularization value, the sparse path and the dense path solve the
\* same weight vector.
C7_SparseDenseEquivalence ==
    \A c \in 1..Len(mg) : \A lam \in LambChoices :
        SparseWeights(mg[c], ug[c], sg[c], lam) = DenseWeights(mg[c], ug[c], sg[c], lam)

\* the statistics of a class have a zero singular value and the dense path,
\* with lamb = 0, has stored a non-finite weight vector for it
C7_Witness ==
    /\ Succeeded
    /\ ~sparse /\ lamb = 0
    /\ \E c \in 1..Len(mg) :
          /\ ZeroOnDiagonal(ug[c], sg[c], 0)
          /\ w.list[c] = NonFinite
          /\ SparseWeights(mg[c], ug[c], sg[c], 0) # NonFinite

\* C8 (serialization round trip): get_params called right after a successful
\* aggregate_update succeeds.
C8_GetParamsSucceeds ==
    [][(Succeeded /\ GetParams) => last'.err = "none"]_vars

\* get_params was called on a trained layer and raised
C8_Witness ==
    /\ last.op = "get_params"
    /\ last.err = "AttributeError"
    /\ seen # <<>> /\ ~w.none

\* the weight table solved from the global statistics, a vector per class
CompleteTable(Mg, Ug, Sg) ==
    Eval([c \in 1..Len(Mg) |-> SolveClass(Mg[c], Ug[c], Sg[c], lamb, sparse)])

C10_PartialCommit ==
    [][/\ (last'.op = "aggregate_update" /\ last'.stage = "merge" /\ last'.err # "none") =>
            /\ Len(mg') = Len(mg) /\ Len(ug') = Len(ug) /\ Len(sg') = Len(sg)
            /\ \A c \in 1..(last'.cls - 1) :
                  LET r == MergeClass(mg[c], ug[c], sg[c], m'[c], u'[c], s'[c])
                  IN mg'[c] = r.M /\ ug'[c] = r.U /\ sg'[c] = r.S
            /\ \A c \in last'.cls..Len(mg) :
                  mg'[c] = mg[c] /\ ug'[c] = ug[c] /\ sg'[c] = sg[c]
       /\ \A b \in BatchIds :
            (/\ last.op = "aggregate_update" /\ last.stage = "merge" /\ last.err # "none"
             /\ ValidFor(num_classes, b)
             /\ AggregateUpdate(b, NoFault))
            => last'.err = "none"]_vars

\* an aggregate_update failed while merging the second class, after the first
\* was merged
C10_Witness ==
    /\ last.op = "aggregate_update"
    /\ last.stage = "merge" /\ last.err = "LinAlgError" /\ last.cls = 2
    /\ \E i \in 1..Len(seen) : seen[i].wrote = 1

\* each thread's call has returned or raised
Finished == \A t \in Threads : calls.pc[t] \in {"done", "failed"}

\* the instance after aggregate_update(ba) and then aggregate_update(bb), one
\* after the other, on a freshly constructed instance of the same configuration
Serial(ba, bb) ==
    AggregateUpdateOn(
        AggregateUpdateOn(Construct(num_classes, lamb, activation, sparse).self,
                          ba, NoFault).self,
        bb, NoFault).self

GlobalStateOf(self) == <<self.mg, self.ug, self.sg>>

\* C11 (non-reentrancy, the serialized half): when the two calls did not
\* overlap, the second starting after the first had ended, the global
\* statistics and the weights they leave are those of the two calls made one
\* after the other in that order.  The interleaved half is the state of
\* C11_Witness.
C11_SerializedCallsAgree ==
    (Finished /\ ~calls.overlapped) =>
        \E r \in {Serial(calls.batch[calls.order[1]], calls.batch[calls.order[2]])} :
            /\ GlobalStateOf(Instance) = GlobalStateOf(r)
            /\ w = r.w

\* two overlapping calls with different batches have both returned, and the
\* global statistics are those of neither serial order: the batch of the call
\* that started second was merged twice and the other batch is lost
C11_Witness ==
    /\ calls.pc = <<"done", "done">>
    /\ calls.overlapped
    /\ calls.batch[1] # calls.batch[2]
    /\ GlobalStateOf(Instance) # GlobalStateOf(Serial(calls.batch[1], calls.batch[2]))
    /\ GlobalStateOf(Instance) # GlobalStateOf(Serial(calls.batch[2], calls.batch[1]))
    /\ GlobalStateOf(Instance) =
          GlobalStateOf(Serial(calls.batch[calls.order[2]], calls.batch[calls.order[2]]))

\* C12 (failure in the local-statistics stage): an aggregate_update that
\* raises in update_weights leaves the global statistics, the weight table and
\* the local statistics stored before the call exactly as they were.
C12_LocalFailureChangesNothing ==
    [][(last'.op = "aggregate_update" /\ last'.stage = "local" /\ last'.err # "none")
          => UNCHANGED <<mg, ug, sg, w, m, u, s>>]_vars

\* a trained two-class layer was given a batch with a target column missing,
\* or with fewer target rows than samples, and the call raised
C12_Witness ==
    /\ last.op = "aggregate_update"
    /\ last.stage = "local"
    /\ last.err \in {"IndexError", "RuntimeError"}
    /\ num_classes = 2
    /\ m # NoStatistics /\ mg # <<>> /\ ~w.none

====
